---- MODULE Spec2Model ----
(***************************************************************************)
(* Session orchestration core of intrascribe: the ephemeral store, the     *)
(* session registry, the finalization pipeline and the retranscription     *)
(* task tracker, as implemented under backend/api_service and backend/app. *)
(***************************************************************************)
EXTENDS Integers, Sequences, FiniteSets, TLC

(* ---------------------------------------------------------------------- *)
(* Bounds                                                                  *)
(* ---------------------------------------------------------------------- *)
MaxSegments == 2
MaxChunks == 1

(* ---------------------------------------------------------------------- *)
(* Domains                                                                 *)
(* ---------------------------------------------------------------------- *)
Owner == "u1"
Users == {"u1", "u2"}
SessionStatus ==
  {"created", "recording", "paused", "processing", "completed", "cancelled", "archived"}
RequestedStatus == {"recording", "paused", "cancelled"}
Texts == {"", "a"}
ChunkSamples == {0, 1}
FinalizeCalls == {"f1", "f2"}
TaskIds == {"t1", "t2"}
NeverAllocated == "t0"
AllTaskIds == TaskIds \cup {NeverAllocated}
AppCalls == {"a1", "a2"}
FinalizeFaults ==
  {"none", "codec", "upload", "audio_insert", "transcript_insert",
   "status_update", "duration_update"}
Unset == -1

VARIABLES
  session,              \* the recording_sessions row of the one session
  redis_transcription,  \* list session:{id}:transcription, head = newest
  redis_audio,          \* list session:{id}:audio, head = newest
  transcriptions,       \* rows of table transcriptions, in insertion order
  audio_files,          \* rows of table audio_files, in insertion order
  seg_seq,              \* number of segments the adapter has appended
  chunk_seq,            \* number of audio chunks the adapter has appended
  fin,                  \* per finalize request: position and locals
  task_store,           \* tasks_v2.task_store: task id -> record
  task_history,         \* per task id: the statuses written, in order
  bg,                   \* per retranscription task: position and locals
  cancelled_active,     \* tasks cancelled while pending or started
  session_cache,        \* SessionCacheManager.session_caches entry
  afin,                 \* per finalize request of the v1 service
  request,              \* the caller of the last HTTP request handled
  redis_ttl,            \* per key of the session: what TTL reports for it
  redis_state,          \* hash session:{id}:state, as a set of <<field, value>>
  wr,                   \* per key: position of the write in flight
  seg,                  \* one run of the speaker segmentation pipeline
  adapter,              \* one run of the realtime ingest adapter
  drain_failed,         \* per finalize request: a store read met an unavailable store
  prog,                 \* one retranscription task: position, progress written, progress polled
  stt,                  \* one adapter instance: the call in flight, publishes in progress
  storage,              \* the audio bucket: epoch second, objects, upload attempts
  reply                 \* the last answer of the task status API

taskVars == <<task_store, task_history, bg, cancelled_active>>
appVars == <<session_cache, afin>>

authVars == <<request>>
storeVars == <<redis_ttl, redis_state, wr>>
segVars == <<seg>>
adapterVars == <<adapter>>
extVars == <<drain_failed, prog, stt, storage, reply>>
auxVars == <<authVars, storeVars, segVars, adapterVars, extVars>>

\* what the steps of one part of the system leave alone in the others
authOthers == <<storeVars, segVars, adapterVars, extVars>>
storeOthers == <<authVars, segVars, adapterVars, extVars>>
segOthers == <<authVars, storeVars, adapterVars, extVars>>
adapterOthers == <<authVars, storeVars, segVars, extVars>>
auxOthers == <<authVars, storeVars, segVars, adapterVars>>
drainOthers == <<prog, stt, storage, reply>>
progOthers == <<drain_failed, stt, storage, reply>>
sttOthers == <<drain_failed, prog, storage, reply>>
storageOthers == <<drain_failed, prog, stt, reply>>
replyOthers == <<drain_failed, prog, stt, storage>>
baseVars ==
  <<session, redis_transcription, redis_audio, transcriptions, audio_files,
    seg_seq, chunk_seq, fin, taskVars, appVars>>

vars ==
  <<session, redis_transcription, redis_audio, transcriptions, audio_files,
    seg_seq, chunk_seq, fin, taskVars, appVars, auxVars>>

(* ---------------------------------------------------------------------- *)
(* Helpers                                                                 *)
(* ---------------------------------------------------------------------- *)
RECURSIVE Reverse(_)
Reverse(s) == IF s = <<>> THEN <<>> ELSE Append(Reverse(Tail(s)), Head(s))

RECURSIVE SumSamples(_)
SumSamples(s) == IF s = <<>> THEN 0 ELSE Head(s).samples + SumSamples(Tail(s))

NoLocals ==
  [pc |-> "idle", user |-> Owner, saw_completed |-> FALSE, after_done |-> FALSE,
   transcription_segments |-> <<>>, audio_segments |-> <<>>,
   did_upload |-> FALSE, did_audio_insert |-> FALSE,
   did_transcript_insert |-> FALSE, did_status_update |-> FALSE,
   result |-> "none"]

None == [none |-> TRUE]

NoTaskLocals ==
  [pc |-> "unallocated", i |-> 0, n |-> 0, parts |-> <<>>, duration |-> 0,
   outcome |-> "none"]

NoAppLocals ==
  [pc |-> "idle", moved |-> FALSE, write_failed |-> FALSE, path |-> "none",
   result |-> "none"]

NoRequest == [caller |-> "none"]

Keys == {"transcription", "state"}
NoKey == -2        \* TTL of a key that does not exist
NoExpiry == -1     \* TTL of a key that has no expiry
TTL_SECONDS == 86400

NoSeg ==
  [pc |-> "idle", duration |-> 0, had_overlap |-> FALSE,
   response |-> [success |-> FALSE, segments |-> <<>>],
   speaker_segments |-> <<>>, out |-> <<>>, finalize_out |-> <<>>]

NoAdapter ==
  [pc |-> "running", rate |-> 0, librosa |-> TRUE, buffer |-> 0, frames |-> 0,
   received |-> 0, appended |-> 0, suppressed |-> 0]

NoProg == [pc |-> "unallocated", published |-> <<>>, polled |-> <<>>]

NoStt ==
  [pc |-> "idle", buffer |-> 0, chunk |-> 0, frames |-> 0, received |-> 0,
   flushed |-> 0, publishing |-> 0]

NoStorage == [now |-> 0, objects |-> {}, attempts |-> <<>>]

NoReply == [task_id |-> "none", status |-> "none", progress |-> None]

AuxInit ==
  /\ request = NoRequest
  /\ seg = NoSeg
  /\ adapter = NoAdapter
  /\ redis_ttl = [k \in Keys |-> NoKey]
  /\ redis_state = {}
  /\ wr = [k \in Keys |-> "idle"]
  /\ drain_failed = [c \in FinalizeCalls |-> FALSE]
  /\ prog = NoProg
  /\ stt = NoStt
  /\ storage = NoStorage
  /\ reply = NoReply

TaskInit ==
  /\ task_store = <<>>
  /\ task_history = [t \in AllTaskIds |-> <<>>]
  /\ bg = [t \in TaskIds |-> NoTaskLocals]
  /\ cancelled_active = {}

AppInit ==
  /\ session_cache = [present |-> FALSE, audio_segments |-> <<>>, transcription_segments |-> <<>>]
  /\ afin = [c \in AppCalls |-> NoAppLocals]

Init ==
  /\ AuxInit
  /\ TaskInit
  /\ AppInit
  /\ session = [status |-> "created", owner |-> Owner, duration_seconds |-> Unset]
  /\ redis_transcription = <<>>
  /\ redis_audio = <<>>
  /\ transcriptions = <<>>
  /\ audio_files = <<>>
  /\ seg_seq = 0
  /\ chunk_seq = 0
  /\ fin = [c \in FinalizeCalls |-> NoLocals]

(* ---------------------------------------------------------------------- *)
(* Ephemeral store (core/redis.py)                                         *)
(* ---------------------------------------------------------------------- *)
LPush(list, item) == <<item>> \o list

\* variant returning the list as stored, newest first
get_session_transcriptions_AsStored == redis_transcription

\* RedisManager.get_session_transcriptions: LRANGE 0 -1, then reversed
get_session_transcriptions == Reverse(redis_transcription)

\* list_audio: same contract as the transcription list
get_session_audio_segments == Reverse(redis_audio)

\* POST /realtime/sessions/{id}/transcription by the adapter (service caller)
store_transcription_segment(text) ==
  /\ seg_seq < MaxSegments
  /\ seg_seq' = seg_seq + 1
  /\ redis_transcription' = LPush(redis_transcription, [seq |-> seg_seq + 1, text |-> text])
  /\ UNCHANGED <<session, redis_audio, transcriptions, audio_files, chunk_seq, fin>>
  /\ UNCHANGED <<taskVars, appVars>>
  /\ UNCHANGED auxVars

\* append_audio by the adapter
store_audio_segment(samples) ==
  /\ chunk_seq < MaxChunks
  /\ chunk_seq' = chunk_seq + 1
  /\ redis_audio' = LPush(redis_audio, [seq |-> chunk_seq + 1, samples |-> samples])
  /\ UNCHANGED <<session, redis_transcription, transcriptions, audio_files, seg_seq, fin>>
  /\ UNCHANGED <<taskVars, appVars>>
  /\ UNCHANGED auxVars

(* ---------------------------------------------------------------------- *)
(* Session registry (repositories/session_repository.py)                   *)
(* ---------------------------------------------------------------------- *)
\* AuthManager.verify_session_ownership
verify_session_ownership(user) == session.owner = user

\* SessionRepository.update_session: the row after the UPDATE ... WHERE id
\* AND user_id; db_ok = FALSE is the except branch (returns None)
SessionRepository_update_session(row, status, user, db_ok) ==
  IF db_ok /\ row.owner = user THEN [row EXCEPT !.status = status] ELSE row

\* PUT /sessions/{session_id}
update_session(user, status, db_ok) ==
  /\ verify_session_ownership(user)
  /\ session' = SessionRepository_update_session(session, status, user, db_ok)
  /\ UNCHANGED <<redis_transcription, redis_audio, transcriptions, audio_files,
                 seg_seq, chunk_seq, fin>>
  /\ UNCHANGED <<taskVars, appVars>>
  /\ UNCHANGED auxVars

(* ---------------------------------------------------------------------- *)
(* Finalization pipeline (routers/sessions_v2.py)                          *)
(* ---------------------------------------------------------------------- *)
\* lines 306-318: the stored segments, indexed by their position in the
\* drained list; segments whose stripped text is empty are left out
RECURSIVE SegmentData(_, _)
SegmentData(segs, i) ==
  IF segs = <<>> THEN <<>>
  ELSE IF Head(segs).text # ""
       THEN <<[index |-> i, seq |-> Head(segs).seq, text |-> Head(segs).text]>>
            \o SegmentData(Tail(segs), i + 1)
       ELSE SegmentData(Tail(segs), i + 1)

\* _process_cached_audio: how far the audio step gets
ProcessCachedAudio(audio_segments, fault) ==
  IF audio_segments = <<>> THEN "no_audio"
  ELSE IF SumSamples(audio_segments) = 0 THEN "no_valid_audio"
  ELSE IF fault = "codec" THEN "convert_failed"
  ELSE IF fault = "upload" THEN "upload_failed"
  ELSE IF fault = "audio_insert" THEN "insert_failed"
  ELSE "success"

\* POST /v2/sessions/{id}/finalize up to the first store read: ownership
\* check, then finalize_session_task loads the session
F_Begin(c, user, db_ok) ==
  /\ fin[c].pc = "idle"
  /\ c = "f2" => fin["f1"].pc # "idle"   \* requests are named in arrival order
  /\ IF ~verify_session_ownership(user)
     THEN fin' = [fin EXCEPT ![c].pc = "done", ![c].user = user, ![c].result = "error"]
     ELSE IF ~db_ok
     THEN fin' = [fin EXCEPT ![c].pc = "return", ![c].user = user]
     ELSE fin' = [fin EXCEPT ![c].pc = "get_transcriptions", ![c].user = user,
                             ![c].saw_completed = (session.status = "completed"),
                             ![c].after_done =
                               \A d \in FinalizeCalls \ {c} : fin[d].pc = "done"]
  /\ UNCHANGED <<session, redis_transcription, redis_audio, transcriptions,
                 audio_files, seg_seq, chunk_seq>>
  /\ UNCHANGED <<taskVars, appVars>>
  /\ UNCHANGED auxVars

F_GetTranscriptions(c) ==
  /\ fin[c].pc = "get_transcriptions"
  /\ fin' = [fin EXCEPT ![c].pc = "get_audio",
                        ![c].transcription_segments = get_session_transcriptions]
  /\ UNCHANGED <<session, redis_transcription, redis_audio, transcriptions,
                 audio_files, seg_seq, chunk_seq>>
  /\ UNCHANGED <<taskVars, appVars>>
  /\ UNCHANGED auxVars

F_GetAudio(c) ==
  /\ fin[c].pc = "get_audio"
  /\ fin' = [fin EXCEPT ![c].pc = "process",
                        ![c].audio_segments = get_session_audio_segments]
  /\ UNCHANGED <<session, redis_transcription, redis_audio, transcriptions,
                 audio_files, seg_seq, chunk_seq>>
  /\ UNCHANGED <<taskVars, appVars>>
  /\ UNCHANGED auxVars

\* the pc after the status update: the clears run only for non-empty reads
AfterUpdate(l) ==
  IF l.transcription_segments # <<>> THEN "clear_transcriptions"
  ELSE IF l.audio_segments # <<>> THEN "clear_audio"
  ELSE "return"

\* finalize_session_task lines 284-358: audio step, transcript step, status
\* update and duration update run without a suspension point
F_Process(c, fault) ==
  /\ fin[c].pc = "process"
  /\ LET l == fin[c]
         audio == ProcessCachedAudio(l.audio_segments, fault)
         uploaded == audio \in {"insert_failed", "success"}
         audio_ok == audio = "success"
         total_duration == IF audio_ok THEN SumSamples(l.audio_segments) ELSE 0
         segment_data == SegmentData(l.transcription_segments, 0)
         has_text == segment_data # <<>>
         save_raises == has_text /\ fault = "transcript_insert"
         saved == has_text /\ ~save_raises
         completed ==
           SessionRepository_update_session(session, "completed", l.user,
                                            fault # "status_update")
     IN /\ audio_files' =
             IF audio_ok
             THEN Append(audio_files,
                         [by |-> c, upload_status |-> "completed",
                          duration_seconds |-> total_duration])
             ELSE audio_files
        /\ transcriptions' =
             IF saved
             THEN Append(transcriptions,
                         [by |-> c, segments |-> segment_data,
                          stt_model |-> "agent_microservice"])
             ELSE transcriptions
        /\ session' =
             IF save_raises THEN session
             ELSE IF total_duration > 0 /\ fault # "duration_update"
             THEN [completed EXCEPT !.duration_seconds = total_duration]
             ELSE completed
        /\ fin' = [fin EXCEPT
             ![c].did_upload = uploaded,
             ![c].did_audio_insert = audio_ok,
             ![c].did_transcript_insert = saved,
             ![c].did_status_update = ~save_raises,
             ![c].pc = IF save_raises THEN "return" ELSE AfterUpdate(l)]
  /\ UNCHANGED <<redis_transcription, redis_audio, seg_seq, chunk_seq>>
  /\ UNCHANGED <<taskVars, appVars>>
  /\ UNCHANGED auxVars

F_ClearTranscriptions(c) ==
  /\ fin[c].pc = "clear_transcriptions"
  /\ redis_transcription' = <<>>
  /\ fin' = [fin EXCEPT ![c].pc =
               IF fin[c].audio_segments # <<>> THEN "clear_audio" ELSE "return"]
  /\ UNCHANGED <<session, redis_audio, transcriptions, audio_files,
                 seg_seq, chunk_seq>>
  /\ UNCHANGED <<taskVars, appVars>>
  /\ UNCHANGED auxVars

F_ClearAudio(c) ==
  /\ fin[c].pc = "clear_audio"
  /\ redis_audio' = <<>>
  /\ fin' = [fin EXCEPT ![c].pc = "return"]
  /\ UNCHANGED <<session, redis_transcription, transcriptions, audio_files,
                 seg_seq, chunk_seq>>
  /\ UNCHANGED <<taskVars, appVars>>
  /\ UNCHANGED auxVars

\* finalize_session lines 410-423: the handler answers success
F_Return(c) ==
  /\ fin[c].pc = "return"
  /\ fin' = [fin EXCEPT ![c].pc = "done", ![c].result = "success",
                        ![c].transcription_segments = <<>>,
                        ![c].audio_segments = <<>>]
  /\ UNCHANGED <<session, redis_transcription, redis_audio, transcriptions,
                 audio_files, seg_seq, chunk_seq>>
  /\ UNCHANGED <<taskVars, appVars>>
  /\ UNCHANGED auxVars

Next ==
  \/ \E t \in Texts : store_transcription_segment(t)
  \/ \E n \in ChunkSamples : store_audio_segment(n)
  \/ \E u \in Users, st \in RequestedStatus, ok \in BOOLEAN : update_session(u, st, ok)
  \/ \E c \in FinalizeCalls, u \in Users, ok \in BOOLEAN : F_Begin(c, u, ok)
  \/ \E c \in FinalizeCalls : F_GetTranscriptions(c)
  \/ \E c \in FinalizeCalls : F_GetAudio(c)
  \/ \E c \in FinalizeCalls, f \in FinalizeFaults : F_Process(c, f)
  \/ \E c \in FinalizeCalls : F_ClearTranscriptions(c)
  \/ \E c \in FinalizeCalls : F_ClearAudio(c)
  \/ \E c \in FinalizeCalls : F_Return(c)

Spec == Init /\ [][Next]_vars

(* ---------------------------------------------------------------------- *)
(* Properties of the finalization pipeline and the session registry        *)
(* ---------------------------------------------------------------------- *)
IsFinalizerRow(r) == r.by \in FinalizeCalls

\* what a finalize request did to persistent state
DidWork(c) ==
  \/ fin[c].did_upload
  \/ fin[c].did_audio_insert
  \/ fin[c].did_transcript_insert
  \/ fin[c].did_status_update

\* C2: a finalize that starts after an earlier finalize has returned success
\* leaves at most one finalizer Transcript row and at most one finalizer
\* AudioFile row, and, having found the session completed, repeats neither
\* the audio step, nor the transcript step, nor the status update.
C2_FinalizeIdempotent ==
  \A c \in FinalizeCalls :
    ( /\ fin[c].pc = "done" /\ fin[c].result = "success" /\ fin[c].after_done
      /\ \A d \in FinalizeCalls \ {c} : fin[d].result = "success" )
    => /\ Len(SelectSeq(transcriptions, IsFinalizerRow)) <= 1
       /\ Len(SelectSeq(audio_files, IsFinalizerRow)) <= 1
       /\ fin[c].saw_completed => ~DidWork(c)

\* C3: once a finalize request has returned success, the session reads as
\* completed in every later state.
C3_CompletedAfterFinalize ==
  (\E c \in FinalizeCalls : fin[c].result = "success")
    => session.status = "completed"

\* the partial order created -> recording <-> paused -> processing -> completed
Rank(st) ==
  CASE st = "created" -> 0
    [] st \in {"recording", "paused"} -> 1
    [] st = "processing" -> 2
    [] st = "completed" -> 3
    [] OTHER -> 4

StatusAdvance(old, new) ==
  IF old \in {"cancelled", "archived"} THEN new = old
  ELSE new \in {"cancelled", "archived"} \/ Rank(old) <= Rank(new)

\* C4: every change of the session's status moves forward along
\* created -> recording <-> paused -> processing -> completed, and a
\* cancelled or archived session keeps its status.
C4_StatusMonotone == [][StatusAdvance(session.status, session'.status)]_vars

\* C5: of two finalize requests for the session that both ran to their end,
\* only one uploads audio, inserts an AudioFile or Transcript row, or
\* updates the status; the other is a no-op.
C5_SingleFinalizer ==
  \A c, d \in FinalizeCalls :
    (c # d /\ fin[c].pc = "done" /\ fin[d].pc = "done")
      => ~(DidWork(c) /\ DidWork(d))

(* ---------------------------------------------------------------------- *)
(* Task tracker (routers/tasks_v2.py)                                      *)
(* ---------------------------------------------------------------------- *)
TerminalStatus == {"success", "failed", "cancelled"}

Progress(step, percentage) == [step |-> step, percentage |-> percentage]

\* update_task_status: the record of the task is replaced as a whole
update_task_status(store, task_id, status, progress, result, error) ==
  (task_id :> [task_id |-> task_id, status |-> status, progress |-> progress,
               result |-> result, error |-> error]) @@ store

\* the statuses written for a task, one entry per change of status
Recorded(hist, task_id, status) ==
  IF hist[task_id] # <<>> /\ hist[task_id][Len(hist[task_id])] = status
  THEN hist
  ELSE [hist EXCEPT ![task_id] = Append(@, status)]

\* DELETE /v2/tasks/{task_id}
cancel_task(task_id) ==
  /\ task_id \in TaskIds => bg[task_id].pc # "unallocated"
  /\ task_store' = update_task_status(task_store, task_id, "cancelled", None, None,
                                      "Task cancelled by user")
  /\ task_history' = Recorded(task_history, task_id, "cancelled")
  /\ cancelled_active' =
       IF task_id \in DOMAIN task_store
          /\ task_store[task_id].status \in {"pending", "started"}
       THEN cancelled_active \cup {task_id}
       ELSE cancelled_active
  /\ UNCHANGED <<session, redis_transcription, redis_audio, transcriptions,
                 audio_files, seg_seq, chunk_seq, fin, bg, appVars>>
  /\ UNCHANGED auxVars

(* ---------------------------------------------------------------------- *)
(* Retranscription (routers/sessions_v2.py, routers/transcriptions.py)     *)
(* ---------------------------------------------------------------------- *)
MaxSpeakerSegments == 2
RetranscribeFaults == {"none", "query", "download", "delete", "prepare"}
BatchFaults ==
  {"none", "codec", "upload", "audio_insert", "transcript_insert", "status_update"}

IsUploaded(r) == r.upload_status = "completed"

\* uuid4: the next task id that was never handed out
FreshTaskId == IF bg["t1"].pc = "unallocated" THEN "t1" ELSE "t2"

\* POST /v2/sessions/{id}/retranscribe: allocates the task and schedules it
retranscribe_session_v2(user, db_ok) ==
  /\ \E t \in TaskIds : bg[t].pc = "unallocated"
  /\ verify_session_ownership(user)
  /\ db_ok
  /\ LET t == FreshTaskId
     IN /\ task_store' = update_task_status(task_store, t, "pending",
                                            Progress("initializing", 0), None, "")
        /\ task_history' = Recorded(task_history, t, "pending")
        /\ bg' = [bg EXCEPT ![t].pc = "scheduled"]
  /\ UNCHANGED <<session, redis_transcription, redis_audio, transcriptions,
                 audio_files, seg_seq, chunk_seq, fin, cancelled_active, appVars>>
  /\ UNCHANGED auxVars

\* the task ends: _retranscribe_session_background_task_v2 lines 634-659
TaskFailed(t, error) ==
  /\ task_store' = update_task_status(task_store, t, "failed", None, None, error)
  /\ task_history' = Recorded(task_history, t, "failed")
  /\ bg' = [bg EXCEPT ![t].pc = "done", ![t].outcome = "failed", ![t].parts = <<>>]

\* the task ends before its first suspension point: started was written first
TaskFailedEarly(t, error) ==
  /\ task_store' = update_task_status(task_store, t, "failed", None, None, error)
  /\ task_history' = Recorded(Recorded(task_history, t, "started"), t, "failed")
  /\ bg' = [bg EXCEPT ![t].pc = "done", ![t].outcome = "failed", ![t].parts = <<>>]

\* background task up to the diarization RPC: progress 10, 15, 25, 35, 50,
\* media lookup, download, deletion of the session's transcriptions
BG_Begin(t, fault) ==
  /\ bg[t].pc = "scheduled"
  /\ LET files == SelectSeq(audio_files, IsUploaded)
     IN IF fault = "query"
        THEN TaskFailedEarly(t, "query failed") /\ UNCHANGED transcriptions
        ELSE IF files = <<>>
        THEN TaskFailedEarly(t, "No audio files found for this session")
             /\ UNCHANGED transcriptions
        ELSE IF fault = "download"
        THEN TaskFailedEarly(t, "Failed to download audio file from storage")
             /\ UNCHANGED transcriptions
        ELSE IF fault = "delete"
        THEN TaskFailedEarly(t, "delete failed") /\ UNCHANGED transcriptions
        ELSE IF fault = "prepare"
        THEN TaskFailedEarly(t, "Audio conversion failed") /\ transcriptions' = <<>>
        ELSE /\ transcriptions' = <<>>
             /\ task_store' = update_task_status(task_store, t, "started",
                                Progress("processing_audio", 50), None, "")
             /\ task_history' = Recorded(task_history, t, "started")
             /\ bg' = [bg EXCEPT ![t].pc = "diarize",
                                 ![t].duration = files[1].duration_seconds]
  /\ UNCHANGED <<session, redis_transcription, redis_audio, audio_files,
                 seg_seq, chunk_seq, fin, cancelled_active, appVars>>
  /\ UNCHANGED auxVars

\* the diarization RPC answers; n speaker segments are left after the
\* fallback or the coalescing
BG_Diarize(t, n) ==
  /\ bg[t].pc = "diarize"
  /\ IF n = 0
     THEN TaskFailed(t, "No transcription content generated from audio file")
     ELSE /\ bg' = [bg EXCEPT ![t].pc = "stt", ![t].i = 1, ![t].n = n]
          /\ UNCHANGED <<task_store, task_history>>
  /\ UNCHANGED <<session, redis_transcription, redis_audio, transcriptions,
                 audio_files, seg_seq, chunk_seq, fin, cancelled_active, appVars>>
  /\ UNCHANGED auxVars

\* _process_batch_audio_file lines 440-467: a segment is kept when its
\* cleaned text is not empty; its index is its position among the kept ones
KeepSegment(parts, i, text) ==
  IF text # ""
  THEN Append(parts, [index |-> Len(parts), seq |-> i, text |-> text])
  ELSE parts

\* the STT RPC of segment i answers; after the last one the media is
\* stored again, the transcript row inserted and the task record finished
BG_Stt(t, text, fault) ==
  /\ bg[t].pc = "stt"
  /\ LET parts == KeepSegment(bg[t].parts, bg[t].i, text)
         stored == fault \notin {"codec", "upload", "audio_insert"}
         saved == stored /\ fault # "transcript_insert"
     IN IF bg[t].i < bg[t].n
        THEN /\ fault = "none"
             /\ bg' = [bg EXCEPT ![t].i = @ + 1, ![t].parts = parts]
             /\ UNCHANGED <<task_store, task_history, session, transcriptions,
                            audio_files>>
        ELSE IF parts = <<>>
        THEN /\ fault = "none"
             /\ TaskFailed(t, "No transcription content generated from audio file")
             /\ UNCHANGED <<session, transcriptions, audio_files>>
        ELSE /\ audio_files' =
                  IF stored
                  THEN Append(audio_files,
                              [by |-> t, upload_status |-> "completed",
                               duration_seconds |-> bg[t].duration])
                  ELSE audio_files
             /\ transcriptions' =
                  IF saved
                  THEN Append(transcriptions,
                              [by |-> t, segments |-> parts,
                               stt_model |-> "local_funasr_batch"])
                  ELSE transcriptions
             /\ session' =
                  IF saved
                  THEN SessionRepository_update_session(session, "completed",
                         session.owner, fault # "status_update")
                  ELSE session
             /\ IF saved
                THEN /\ task_store' = update_task_status(task_store, t, "success",
                                        Progress("completed", 100),
                                        [transcription_by |-> t,
                                         total_segments |-> Len(parts)], "")
                     /\ task_history' = Recorded(task_history, t, "success")
                     /\ bg' = [bg EXCEPT ![t].pc = "done", ![t].outcome = "success",
                                         ![t].parts = <<>>]
                ELSE TaskFailed(t, fault)
  /\ UNCHANGED <<redis_transcription, redis_audio, seg_seq, chunk_seq, fin,
                 cancelled_active, appVars>>
  /\ UNCHANGED auxVars

\* a finalized session: completed, with the finalizer's AudioFile and
\* Transcript rows when there was audio and text
InitTask ==
  /\ AuxInit
  /\ TaskInit
  /\ AppInit
  /\ session = [status |-> "completed", owner |-> Owner, duration_seconds |-> 1]
  /\ redis_transcription = <<>>
  /\ redis_audio = <<>>
  /\ audio_files \in
       {<<>>, <<[by |-> "f1", upload_status |-> "completed", duration_seconds |-> 1]>>}
  /\ transcriptions \in
       {<<>>, <<[by |-> "f1", segments |-> <<[index |-> 0, seq |-> 1, text |-> "a"]>>,
                stt_model |-> "agent_microservice"]>>}
  /\ seg_seq = 0
  /\ chunk_seq = 0
  /\ fin = [c \in FinalizeCalls |-> NoLocals]

NextTask ==
  \/ \E u \in Users, ok \in BOOLEAN : retranscribe_session_v2(u, ok)
  \/ \E t \in TaskIds, f \in RetranscribeFaults : BG_Begin(t, f)
  \/ \E t \in TaskIds, n \in 0..MaxSpeakerSegments : BG_Diarize(t, n)
  \/ \E t \in TaskIds, x \in Texts, f \in BatchFaults : BG_Stt(t, x, f)
  \/ \E t \in AllTaskIds : cancel_task(t)

SpecTask == InitTask /\ [][NextTask]_vars

(* ---------------------------------------------------------------------- *)
(* Properties of the task tracker and of retranscription                   *)
(* ---------------------------------------------------------------------- *)
\* C1: once a task's record has status success, failed or cancelled, no
\* step changes that record.
C1_TerminalImmutable ==
  [][\A t \in DOMAIN task_store :
       task_store[t].status \in TerminalStatus
         => (t \in DOMAIN task_store' /\ task_store'[t] = task_store[t])]_vars

IsLifecycle(h) ==
  /\ Len(h) <= 3
  /\ Len(h) >= 1 => h[1] = "pending"
  /\ Len(h) >= 2 => h[2] = "started"
  /\ Len(h) >= 3 => h[3] \in TerminalStatus

\* C6: the statuses recorded for a retranscription task are, in order, pending, started and
\* then at most one of success, failed, cancelled.
C6_TaskLifecycle == \A t \in TaskIds : IsLifecycle(task_history[t])

\* C7: a task that was cancelled while pending or started never has a
\* Transcript row of its own.
C7_CancelDiscards ==
  \A t \in cancelled_active :
    \A k \in 1..Len(transcriptions) : transcriptions[k].by # t

\* C8: no step takes the session from having a Transcript row to having
\* none: another request sees the prior transcript or the new one.
C8_AtomicReplace == [][transcriptions # <<>> => transcriptions' # <<>>]_vars

\* C9: after two retranscriptions that both succeeded, the session has one
\* Transcript row, the one of the later run.
C9_SingleCurrentTranscript ==
  (bg["t1"].outcome = "success" /\ bg["t2"].outcome = "success")
    => (Len(transcriptions) = 1 /\ transcriptions[1].by = "t2")

(* ---------------------------------------------------------------------- *)
(* Finalization in the v1 service (app/services.py, app/repositories.py)   *)
(* ---------------------------------------------------------------------- *)
AppFaults == {"none", "load", "audio", "save", "processing_write", "convert"}
ReprocessOutcomes == {"success", "failed", "raised"}
ReprocessedSegments == <<[index |-> 0, seq |-> 1, text |-> "a"]>>

\* SessionCacheManager.add_transcription_segment
add_transcription_segment(text) ==
  /\ session_cache.present
  /\ seg_seq < MaxSegments
  /\ seg_seq' = seg_seq + 1
  /\ session_cache' = [session_cache EXCEPT !.transcription_segments =
                         Append(@, [seq |-> seg_seq + 1, text |-> text])]
  /\ UNCHANGED <<session, redis_transcription, redis_audio, transcriptions,
                 audio_files, chunk_seq, fin, taskVars, afin>>
  /\ UNCHANGED auxVars

\* SessionCacheManager.add_audio_segment
add_audio_segment(samples) ==
  /\ session_cache.present
  /\ chunk_seq < MaxChunks
  /\ chunk_seq' = chunk_seq + 1
  /\ session_cache' = [session_cache EXCEPT !.audio_segments =
                         Append(@, [seq |-> chunk_seq + 1, samples |-> samples])]
  /\ UNCHANGED <<session, redis_transcription, redis_audio, transcriptions,
                 audio_files, seg_seq, fin, taskVars, afin>>
  /\ UNCHANGED auxVars

\* SessionRepository.update_session_status: the status after the write, which
\* raises (ok = FALSE) when the database rejects it
update_session_status(status, new, ok) == IF ok THEN new ELSE status

\* SessionService.finalize_session up to the first suspension point: load,
\* cache lookup, audio and transcript persistence, status -> processing,
\* MP3 conversion, and its error handler
A_Begin(c, fault, w) ==
  /\ afin[c].pc = "idle"
  /\ c = "a2" => afin["a1"].pc # "idle"   \* requests are named in arrival order
  /\ LET cache == session_cache
         audio_ok == cache.audio_segments # <<>> /\ fault # "audio"
         duration == IF audio_ok THEN SumSamples(cache.audio_segments) ELSE 0
         saved == cache.transcription_segments # <<>> /\ fault # "save"
         rejected == fault = "load" \/ ~cache.present
     IN IF rejected
        THEN /\ afin' = [afin EXCEPT ![c].pc = "done", ![c].result = "error"]
             /\ UNCHANGED <<session, transcriptions, audio_files>>
        ELSE /\ audio_files' =
                  IF audio_ok
                  THEN Append(audio_files,
                              [by |-> c, upload_status |-> "completed",
                               duration_seconds |-> duration])
                  ELSE audio_files
             /\ transcriptions' =
                  IF saved
                  THEN Append(transcriptions,
                              [by |-> c,
                               segments |-> SegmentData(cache.transcription_segments, 0),
                               stt_model |-> "whisper"])
                  ELSE transcriptions
             /\ IF fault = "processing_write"
                THEN /\ afin' = [afin EXCEPT ![c].pc = "done", ![c].result = "error"]
                     /\ UNCHANGED session
                ELSE IF fault = "convert"
                THEN /\ session' = [session EXCEPT
                          !.status = update_session_status("processing", "completed", w),
                          !.duration_seconds = duration]
                     /\ afin' = [afin EXCEPT ![c].pc = "done", ![c].moved = TRUE,
                                   ![c].path = "convert_error",
                                   ![c].write_failed = ~w,
                                   ![c].result = IF w THEN "success" ELSE "error"]
                ELSE /\ session' = [session EXCEPT !.status = "processing",
                                                   !.duration_seconds = duration]
                     /\ afin' = [afin EXCEPT ![c].pc = "reprocess", ![c].moved = TRUE]
  /\ w = FALSE => fault = "convert"
  /\ session_cache' =
       IF session_cache.present /\ fault = "convert" /\ w
       THEN [present |-> FALSE, audio_segments |-> <<>>,
             transcription_segments |-> <<>>]
       ELSE session_cache
  /\ UNCHANGED <<redis_transcription, redis_audio, seg_seq, chunk_seq, fin,
                 taskVars>>
  /\ UNCHANGED auxVars

\* variant whose failure branches leave the status alone
ReprocessStatus_Forgets(status, outcome, w1, w2) ==
  IF outcome = "success" /\ w1
  THEN update_session_status(status, "completed", TRUE)
  ELSE status

\* _reprocess_session_with_audio_data lines 533-566: the status after its
\* writes of completed; w1 is the write of the normal path, w2 the write of
\* the except branch, whose failure is logged and swallowed
ReprocessStatus(status, outcome, w1, w2) ==
  IF outcome \in {"success", "failed"} /\ w1
  THEN update_session_status(status, "completed", TRUE)
  ELSE update_session_status(status, "completed", w2)

\* TranscriptionRepository.update_transcription_with_reprocessed_data
UpdateReprocessed(rows, c) ==
  IF rows = <<>>
  THEN <<[by |-> c, segments |-> ReprocessedSegments, stt_model |-> "whisper"]>>
  ELSE [rows EXCEPT ![Len(rows)].segments = ReprocessedSegments]

\* the speaker-aware processing answers; the session is marked completed,
\* then finalize_session drops the cache and returns
A_Reprocess(c, outcome, w1, w2) ==
  /\ afin[c].pc = "reprocess"
  /\ w1 \/ outcome # "raised"
  /\ transcriptions' =
       IF outcome = "success" THEN UpdateReprocessed(transcriptions, c)
       ELSE transcriptions
  /\ session' = [session EXCEPT !.status = ReprocessStatus(@, outcome, w1, w2)]
  /\ session_cache' = [present |-> FALSE, audio_segments |-> <<>>,
                       transcription_segments |-> <<>>]
  /\ afin' = [afin EXCEPT ![c].pc = "done", ![c].path = outcome,
                ![c].write_failed = ~((outcome \in {"success", "failed"} /\ w1) \/ w2),
                ![c].result = "success"]
  /\ UNCHANGED <<redis_transcription, redis_audio, audio_files, seg_seq,
                 chunk_seq, fin, taskVars>>
  /\ UNCHANGED auxVars

\* a session being recorded: its cache exists since create_session
InitApp ==
  /\ AuxInit
  /\ TaskInit
  /\ session = [status |-> "recording", owner |-> Owner, duration_seconds |-> Unset]
  /\ session_cache = [present |-> TRUE, audio_segments |-> <<>>,
                      transcription_segments |-> <<>>]
  /\ afin = [c \in AppCalls |-> NoAppLocals]
  /\ redis_transcription = <<>>
  /\ redis_audio = <<>>
  /\ transcriptions = <<>>
  /\ audio_files = <<>>
  /\ seg_seq = 0
  /\ chunk_seq = 0
  /\ fin = [c \in FinalizeCalls |-> NoLocals]

NextApp ==
  \/ \E x \in Texts : add_transcription_segment(x)
  \/ \E n \in ChunkSamples : add_audio_segment(n)
  \/ \E c \in AppCalls, f \in AppFaults, w \in BOOLEAN : A_Begin(c, f, w)
  \/ \E c \in AppCalls, o \in ReprocessOutcomes, w1, w2 \in BOOLEAN :
       A_Reprocess(c, o, w1, w2)

SpecApp == InitApp /\ [][NextApp]_vars

AppQuiet == \A c \in AppCalls : afin[c].pc \in {"idle", "done"}

LegalTransition(old, new) ==
  /\ old \notin {"cancelled", "archived"}
  /\ \/ new \in {"cancelled", "archived"}
     \/ <<old, new>> \in {<<"created", "recording">>, <<"recording", "paused">>,
                          <<"paused", "recording">>, <<"recording", "processing">>,
                          <<"paused", "processing">>, <<"processing", "completed">>}

\* C11: a session update (a step that is not a step of a finalize call)
\* changes the status only along a transition of the state machine: an
\* illegal request leaves the status as it was.
C11_IllegalTransitionRejected ==
  [][(fin' = fin /\ session'.status # session.status)
       => LegalTransition(session.status, session'.status)]_vars

(* ---------------------------------------------------------------------- *)
(* Authentication and session ownership at the HTTP routes                 *)
(* ---------------------------------------------------------------------- *)
ServicePrincipal == "service"
Callers == Users \cup {ServicePrincipal}

\* bearer tokens: the shared SERVICE_TOKEN, or a JWT with a sub claim that is
\* genuine (signed by the issuer) or not
ServiceToken == [kind |-> "service", sub |-> "", genuine |-> TRUE]
Jwt(sub, genuine) == [kind |-> "jwt", sub |-> sub, genuine |-> genuine]

\* what a caller is able to present: the service knows the shared secret, a
\* user holds a genuine JWT for itself and can fabricate a JWT with any sub
Tokens(c) ==
  IF c = ServicePrincipal THEN {ServiceToken}
  ELSE {Jwt(c, TRUE)} \cup {Jwt(u, FALSE) : u \in Users}

\* AuthManager.get_user_id_from_token: decodes with verify_signature False
get_user_id_from_token(token) ==
  IF token.kind = "jwt" THEN token.sub ELSE "none"

\* get_current_user: the user id, or "none" for 401
get_current_user(token) == get_user_id_from_token(token)

\* get_current_user_or_service: the service principal for the service token
get_current_user_or_service(token) ==
  IF token.kind = "service" THEN ServicePrincipal
  ELSE get_user_id_from_token(token)

\* dependency verify_session_ownership
OwnershipVerified(token) ==
  LET user == get_current_user(token)
  IN user # "none" /\ verify_session_ownership(user)

verify_session_ownership_or_service(token) ==
  LET who == get_current_user_or_service(token)
  IN \/ who = ServicePrincipal
     \/ who # "none" /\ verify_session_ownership(who)

\* PUT /sessions/{id}
R_UpdateSession(c, token, status) ==
  /\ request' = [caller |-> c]
  /\ UNCHANGED authOthers
  /\ session' =
       IF OwnershipVerified(token)
       THEN SessionRepository_update_session(session, status,
                                             get_current_user(token), TRUE)
       ELSE session
  /\ UNCHANGED <<redis_transcription, redis_audio, transcriptions, audio_files,
                 seg_seq, chunk_seq, fin, taskVars, appVars>>

\* POST /realtime/sessions/{id}/transcription
R_StoreTranscription(c, token, text) ==
  /\ seg_seq < MaxSegments
  /\ request' = [caller |-> c]
  /\ UNCHANGED authOthers
  /\ IF verify_session_ownership_or_service(token)
     THEN /\ seg_seq' = seg_seq + 1
          /\ redis_transcription' =
               LPush(redis_transcription, [seq |-> seg_seq + 1, text |-> text])
     ELSE UNCHANGED <<seg_seq, redis_transcription>>
  /\ UNCHANGED <<session, redis_audio, transcriptions, audio_files, chunk_seq,
                 fin, taskVars, appVars>>

\* DELETE /realtime/sessions/{id}/transcription
R_ClearTranscription(c, token) ==
  /\ request' = [caller |-> c]
  /\ UNCHANGED authOthers
  /\ redis_transcription' =
       IF OwnershipVerified(token) THEN <<>> ELSE redis_transcription
  /\ UNCHANGED <<session, redis_audio, transcriptions, audio_files, seg_seq,
                 chunk_seq, fin, taskVars, appVars>>

NextAuth ==
  \/ \E c \in Callers : \E token \in Tokens(c) : \E st \in RequestedStatus :
       R_UpdateSession(c, token, st)
  \/ \E c \in Callers : \E token \in Tokens(c) : \E x \in Texts :
       R_StoreTranscription(c, token, x)
  \/ \E c \in Callers : \E token \in Tokens(c) : R_ClearTranscription(c, token)

SpecAuth == Init /\ [][NextAuth]_vars

\* C12: a request whose caller is neither the owner nor the internal service
\* changes neither the session row nor the session's transcription list.
C12_OnlyOwnerOrServiceMutates ==
  [][request'.caller \notin {Owner, ServicePrincipal}
       => (session' = session /\ redis_transcription' = redis_transcription)]_vars

(* ---------------------------------------------------------------------- *)
(* Writers of a task record                                                *)
(* ---------------------------------------------------------------------- *)
\* C13: once a task record exists, every change of it is made by a step of
\* the background task that runs it (a step that moves bg[t]).
C13_ExecutorOnlyWriter ==
  [][\A t \in TaskIds :
       (t \in DOMAIN task_store /\ task_store'[t] # task_store[t])
         => bg'[t] # bg[t]]_vars

StateValues == {"active", "idle"}

\* Redis: a command that creates the key leaves it without expiry, one that
\* finds the key keeps its expiry
AfterWrite(ttl) == IF ttl = NoKey THEN NoExpiry ELSE ttl

\* Redis EXPIRE key seconds: no effect on a key that does not exist
Expire(ttl, seconds) == IF ttl = NoKey THEN NoKey ELSE seconds

\* store_transcription_segment up to the await of LPUSH
S_LPush(text) ==
  /\ wr["transcription"] = "idle"
  /\ seg_seq < MaxSegments
  /\ seg_seq' = seg_seq + 1
  /\ redis_transcription' =
       LPush(redis_transcription, [seq |-> seg_seq + 1, text |-> text])
  /\ redis_ttl' = [redis_ttl EXCEPT !["transcription"] = AfterWrite(@)]
  /\ wr' = [wr EXCEPT !["transcription"] = "pushed"]
  /\ UNCHANGED <<session, redis_audio, transcriptions, audio_files, chunk_seq,
                 fin, taskVars, appVars, storeOthers, redis_state>>

\* store_transcription_segment, the await of EXPIRE; when the command raises
\* (ok = FALSE) the except branch logs and the write is over
S_Expire(ok) ==
  /\ wr["transcription"] = "pushed"
  /\ redis_ttl' = IF ok THEN [redis_ttl EXCEPT !["transcription"] = Expire(@, TTL_SECONDS)]
                  ELSE redis_ttl
  /\ wr' = [wr EXCEPT !["transcription"] = "idle"]
  /\ UNCHANGED <<session, redis_transcription, redis_audio, transcriptions,
                 audio_files, seg_seq, chunk_seq, fin, taskVars, appVars,
                 storeOthers, redis_state>>

\* HSET key mapping: the fields given replace those stored
HSet(hash, field, value) ==
  {fv \in hash : fv[1] # field} \cup {<<field, value>>}

\* set_session_state up to the await of HSET
S_HSet(value) ==
  /\ wr["state"] = "idle"
  /\ redis_state' = HSet(redis_state, "status", value)
  /\ redis_ttl' = [redis_ttl EXCEPT !["state"] = AfterWrite(@)]
  /\ wr' = [wr EXCEPT !["state"] = "pushed"]
  /\ UNCHANGED <<session, redis_transcription, redis_audio, transcriptions,
                 audio_files, seg_seq, chunk_seq, fin, taskVars, appVars, storeOthers>>

\* set_session_state, the await of EXPIRE
S_ExpireState(ok) ==
  /\ wr["state"] = "pushed"
  /\ redis_ttl' = IF ok THEN [redis_ttl EXCEPT !["state"] = Expire(@, TTL_SECONDS)]
                  ELSE redis_ttl
  /\ wr' = [wr EXCEPT !["state"] = "idle"]
  /\ UNCHANGED <<session, redis_transcription, redis_audio, transcriptions,
                 audio_files, seg_seq, chunk_seq, fin, taskVars, appVars,
                 storeOthers, redis_state>>

\* clear_session_transcriptions: DEL key
clear_session_transcriptions ==
  /\ redis_transcription # <<>>
  /\ redis_transcription' = <<>>
  /\ redis_ttl' = [redis_ttl EXCEPT !["transcription"] = NoKey]
  /\ UNCHANGED <<session, redis_audio, transcriptions, audio_files, seg_seq,
                 chunk_seq, fin, taskVars, appVars, storeOthers, redis_state, wr>>

\* the store drops a key whose time to live has run out
KeyExpires(k) ==
  /\ redis_ttl[k] = TTL_SECONDS
  /\ redis_ttl' = [redis_ttl EXCEPT ![k] = NoKey]
  /\ redis_transcription' = IF k = "transcription" THEN <<>> ELSE redis_transcription
  /\ redis_state' = IF k = "state" THEN {} ELSE redis_state
  /\ UNCHANGED <<session, redis_audio, transcriptions, audio_files, seg_seq,
                 chunk_seq, fin, taskVars, appVars, storeOthers, wr>>

NextStore ==
  \/ \E x \in Texts : S_LPush(x)
  \/ \E ok \in BOOLEAN : S_Expire(ok)
  \/ \E v \in StateValues : S_HSet(v)
  \/ \E ok \in BOOLEAN : S_ExpireState(ok)
  \/ clear_session_transcriptions
  \/ \E k \in Keys : KeyExpires(k)

SpecStore == Init /\ [][NextStore]_vars

\* C15: when no write of a key is in flight, a key that exists carries the
\* 24-hour expiry.
C15_WrittenKeyHasExpiry ==
  \A k \in Keys :
    (wr[k] = "idle" /\ redis_ttl[k] # NoKey) => redis_ttl[k] = TTL_SECONDS

(* ---------------------------------------------------------------------- *)
(* Speaker segmentation: the diarization service's post-processing and     *)
(* the coalescing done by the batch pipeline.  Times are in half seconds.  *)
(* ---------------------------------------------------------------------- *)
MaxTurns == 3
TicksPerSecond == 2
OneSecond == 1 * TicksPerSecond
FiveSeconds == 5 * TicksPerSecond
min_segment_duration == OneSecond

TimePoints == {0, 1, 3, 6, 16}
Labels == {"SPEAKER_00", "SPEAKER_01"}
Durations == {1, 16}

SpeakerSegment(start, end, label) ==
  [start_time |-> start, end_time |-> end, speaker_label |-> label,
   duration |-> end - start]

Turns ==
  {SpeakerSegment(a, b, l) : a \in TimePoints, b \in TimePoints, l \in Labels}

RECURSIVE SubsetsUpTo(_, _)
SubsetsUpTo(S, n) ==
  IF n = 0 THEN {{}}
  ELSE LET P == SubsetsUpTo(S, n - 1)
       IN P \cup {T \cup {x} : T \in P, x \in S}

LabelRank(l) == IF l = "SPEAKER_00" THEN 0 ELSE 1

\* the order in which the pipeline's result is iterated: by start, then end
Before(a, b) ==
  \/ a.start_time < b.start_time
  \/ a.start_time = b.start_time /\ a.end_time < b.end_time
  \/ /\ a.start_time = b.start_time /\ a.end_time = b.end_time
     /\ LabelRank(a.speaker_label) < LabelRank(b.speaker_label)

RECURSIVE InTimeOrder(_)
InTimeOrder(S) ==
  IF S = {} THEN <<>>
  ELSE LET m == CHOOSE x \in S : \A y \in S \ {x} : Before(x, y)
       IN <<m>> \o InTimeOrder(S \ {m})

\* diarization.itertracks: any set of at most MaxTurns turns, in time order
TurnSeqs ==
  {InTimeOrder(S) :
     S \in SubsetsUpTo({t \in Turns : t.start_time < t.end_time}, MaxTurns)}

\* diarize_audio_file lines 130-133: turns below the minimum are skipped
SkipShortTurns(turns) ==
  SelectSeq(turns, LAMBDA t : t.duration >= min_segment_duration)

\* sorted(segments, key=start_time): stable
InsertByStart(sorted, x) ==
  LET k == Cardinality({i \in 1..Len(sorted) :
                          sorted[i].start_time <= x.start_time})
  IN SubSeq(sorted, 1, k) \o <<x>> \o SubSeq(sorted, k + 1, Len(sorted))

Overlaps(a, b) == a.start_time < b.end_time /\ a.end_time > b.start_time

RECURSIVE SortByStart(_)
SortByStart(segments) ==
  IF segments = <<>> THEN <<>>
  ELSE InsertByStart(SortByStart(SubSeq(segments, 1, Len(segments) - 1)),
                     segments[Len(segments)])

\* variant that keeps a segment overlapping one already kept
KeepOrReplace_KeepsBoth(cleaned, current) == Append(cleaned, current)

\* _remove_overlapping_segments, the body of the outer loop: the first kept
\* segment that overlaps is replaced when the current one is longer
KeepOrReplace(cleaned, current) ==
  LET hits == {i \in 1..Len(cleaned) : Overlaps(current, cleaned[i])}
  IN IF hits = {} THEN Append(cleaned, current)
     ELSE LET i == CHOOSE h \in hits : \A g \in hits : h <= g
          IN IF current.duration > cleaned[i].duration
             THEN [cleaned EXCEPT ![i] = current]
             ELSE cleaned

RECURSIVE RemoveLoop(_, _)
RemoveLoop(cleaned, rest) ==
  IF rest = <<>> THEN cleaned
  ELSE RemoveLoop(KeepOrReplace(cleaned, Head(rest)), Tail(rest))

\* SpeakerDiarizationManager._remove_overlapping_segments
remove_overlapping_segments(segments) ==
  IF segments = <<>> THEN segments
  ELSE RemoveLoop(<<>>, SortByStart(segments))

\* SpeakerDiarizationManager.create_fallback_segments
create_fallback_segments(audio_duration) ==
  <<SpeakerSegment(0, audio_duration, "speaker_0")>>

DiarizeModes == {"ok", "error", "unavailable"}

\* POST /diarize as seen through DiarizationServiceClient.diarize_audio
DiarizeResponse(turns, mode, estimated_duration) ==
  IF mode = "unavailable"
  THEN [success |-> TRUE, segments |-> create_fallback_segments(estimated_duration)]
  ELSE IF mode = "error"
  THEN [success |-> FALSE, segments |-> <<>>]
  ELSE [success |-> TRUE,
        segments |-> remove_overlapping_segments(SkipShortTurns(turns))]

\* _merge_adjacent_short_segments, first loop: neighbours of one speaker
\* that are both under five seconds are joined
RECURSIVE MergeLoop(_, _, _)
MergeLoop(merged, current, rest) ==
  IF rest = <<>> THEN Append(merged, current)
  ELSE LET next == Head(rest)
       IN IF /\ current.speaker_label = next.speaker_label
             /\ current.end_time - current.start_time < FiveSeconds
             /\ next.end_time - next.start_time < FiveSeconds
          THEN MergeLoop(merged,
                         SpeakerSegment(current.start_time, next.end_time,
                                        current.speaker_label),
                         Tail(rest))
          ELSE MergeLoop(Append(merged, current), next, Tail(rest))

\* _merge_adjacent_short_segments
merge_adjacent_short_segments(segments) ==
  IF segments = <<>> THEN <<>>
  ELSE SelectSeq(MergeLoop(<<>>, Head(segments), Tail(segments)),
                 LAMBDA g : g.end_time - g.start_time >= OneSecond)

\* variant that falls back only when the RPC reports failure
SpeakerSegments_OnFailureOnly(response, duration_seconds) ==
  IF ~response.success
  THEN <<SpeakerSegment(0, duration_seconds, "Speaker 1")>>
  ELSE merge_adjacent_short_segments(response.segments)

\* _process_batch_audio_file lines 384-395
SpeakerSegments(response, duration_seconds) ==
  IF ~response.success \/ response.segments = <<>>
  THEN <<SpeakerSegment(0, duration_seconds, "Speaker 1")>>
  ELSE merge_adjacent_short_segments(response.segments)

\* variant that numbers every kept segment 0
RECURSIVE TranscribeLoop_Unnumbered(_, _, _)
TranscribeLoop_Unnumbered(all, segments, kept) ==
  IF segments = <<>> THEN all
  ELSE TranscribeLoop_Unnumbered(
         IF Head(kept)
         THEN Append(all, [index |-> 0,
                           speaker |-> Head(segments).speaker_label,
                           start_time |-> Head(segments).start_time,
                           end_time |-> Head(segments).end_time])
         ELSE all,
         Tail(segments), Tail(kept))

\* lines 404-462: the segments whose transcription gave text, indexed by
\* their position among those kept
RECURSIVE TranscribeLoop(_, _, _)
TranscribeLoop(all, segments, kept) ==
  IF segments = <<>> THEN all
  ELSE TranscribeLoop(
         IF Head(kept)
         THEN Append(all, [index |-> Len(all),
                           speaker |-> Head(segments).speaker_label,
                           start_time |-> Head(segments).start_time,
                           end_time |-> Head(segments).end_time])
         ELSE all,
         Tail(segments), Tail(kept))

HasOverlap(segments) ==
  \E i, j \in 1..Len(segments) : i # j /\ Overlaps(segments[i], segments[j])

\* the diarization RPC answers
Seg_Diarize(turns, mode, estimated_duration, duration_seconds) ==
  /\ seg.pc = "idle"
  /\ seg' = [seg EXCEPT
       !.pc = "diarized",
       !.duration = duration_seconds,
       !.had_overlap = mode = "ok" /\ HasOverlap(SkipShortTurns(turns)),
       !.response = DiarizeResponse(turns, mode, estimated_duration)]
  /\ UNCHANGED <<baseVars, segOthers>>

\* the batch pipeline chooses its speaker segments
Seg_Select ==
  /\ seg.pc = "diarized"
  /\ seg' = [seg EXCEPT
       !.pc = "selected",
       !.speaker_segments = SpeakerSegments(seg.response, seg.duration)]
  /\ UNCHANGED <<baseVars, segOthers>>

\* every speaker segment has been through extraction and the STT RPC
Seg_Transcribe(kept) ==
  /\ seg.pc = "selected"
  /\ Len(kept) = Len(seg.speaker_segments)
  /\ seg' = [seg EXCEPT
       !.pc = "done",
       !.out = TranscribeLoop(<<>>, seg.speaker_segments, kept)]
  /\ UNCHANGED <<baseVars, segOthers>>

\* the lists finalize can drain: the appends in order, any texts
DrainedLists ==
  UNION {{[k \in 1..n |-> [seq |-> k, text |-> f[k]]] : f \in [1..n -> Texts]} :
           n \in 1..MaxSegments}

\* finalize_session_task lines 300-318 on a drained list
Seg_BuildFinalize(drained) ==
  /\ seg.finalize_out = <<>>
  /\ SegmentData(drained, 0) # <<>>
  /\ seg' = [seg EXCEPT !.finalize_out = SegmentData(drained, 0)]
  /\ UNCHANGED <<baseVars, segOthers>>

KeptMasks == UNION {[1..n -> BOOLEAN] : n \in 0..(MaxTurns + 1)}

NextSeg ==
  \/ \E turns \in TurnSeqs, d \in Durations : Seg_Diarize(turns, "ok", d, d)
  \/ \E mode \in DiarizeModes \ {"ok"}, e \in Durations, d \in Durations :
       Seg_Diarize(<<>>, mode, e, d)
  \/ Seg_Select
  \/ \E kept \in KeptMasks : Seg_Transcribe(kept)
  \/ \E drained \in DrainedLists : Seg_BuildFinalize(drained)

SpecSeg == Init /\ [][NextSeg]_vars

FallbackUsed == ~seg.response.success \/ seg.response.segments = <<>>

\* C16: when the diarization RPC reports failure or returns no segment, the
\* pipeline goes on with exactly one speaker segment, from 0 to the audio
\* duration, labelled Speaker 1.
C16_SingleFallbackSegment ==
  (seg.pc \in {"selected", "done"} /\ FallbackUsed)
    => seg.speaker_segments =
         <<[start_time |-> 0, end_time |-> seg.duration,
            speaker_label |-> "Speaker 1", duration |-> seg.duration]>>

\* the RPC answered success with no segment and the one fallback segment
\* was transcribed
C16_Witness ==
  /\ seg.pc = "done"
  /\ seg.response.success /\ seg.response.segments = <<>>
  /\ Len(seg.out) = 1

\* C17: every segment of a retranscription output, the fallback segment
\* included, lasts at least one second.
C17_MinimumDuration ==
  \A k \in 1..Len(seg.out) :
    seg.out[k].end_time - seg.out[k].start_time >= OneSecond

\* C18: no two segments overlap, neither in the sequence the diarization
\* service returns nor after the coalescing nor in the output.
C18_NoOverlap ==
  /\ ~HasOverlap(seg.response.segments)
  /\ ~HasOverlap(seg.speaker_segments)
  /\ ~HasOverlap(seg.out)

\* overlapping turns were given, and two segments came out
C18_Witness ==
  /\ seg.pc = "done"
  /\ seg.had_overlap
  /\ Len(seg.response.segments) >= 2
  /\ Len(seg.out) >= 2

StrictlyByIndex(segments) ==
  \A i, j \in 1..Len(segments) : i < j => segments[i].index < segments[j].index

MaxFrames == 3
BytesPerSample == 2
TargetRate == 24000
BufferThreshold == 24000 * 2
Rates == {24000, 48000}
FrameSamples == {6000, 24000, 30000}

\* variant that hands the samples on as they are
Resample_Same(n, orig_sr, target_sr) == n

\* librosa.resample: the length of the output
Resample(n, orig_sr, target_sr) == (n * target_sr + orig_sr - 1) \div orig_sr

\* lines 85-104: the chunk made of the buffered samples
AudioFinal(n, sample_rate, librosa) ==
  IF sample_rate # TargetRate /\ librosa
  THEN Resample(n, sample_rate, TargetRate)
  ELSE n

\* MicroserviceSTT._recognize_impl for one frame, with the chunk handed to
\* Transcriber._cache_audio_segment; cached says whether the API answered 200
Recognize(samples, sample_rate, librosa, cached) ==
  /\ adapter.pc = "running"
  /\ adapter.frames < MaxFrames
  /\ adapter.rate \in {0, sample_rate}
  /\ adapter.rate # 0 => librosa = adapter.librosa
  /\ LET filled == adapter.buffer + samples * BytesPerSample
         flush == filled >= BufferThreshold
         chunk == AudioFinal(filled \div BytesPerSample, sample_rate, librosa)
     IN adapter' = [adapter EXCEPT
          !.rate = sample_rate,
          !.librosa = librosa,
          !.frames = @ + 1,
          !.received = @ + samples,
          !.buffer = IF flush THEN 0 ELSE filled,
          !.appended = IF flush /\ cached THEN @ + chunk ELSE @,
          !.suppressed = IF flush /\ ~cached THEN @ + chunk ELSE @]
  /\ UNCHANGED <<baseVars, adapterOthers>>

\* the room closes: the job ends, what is left in the buffer is not flushed
Adapter_Close ==
  /\ adapter.pc = "running"
  /\ adapter' = [adapter EXCEPT !.pc = "closed"]
  /\ UNCHANGED <<baseVars, adapterOthers>>

NextAdapter ==
  \/ \E n \in FrameSamples, r \in Rates, l \in BOOLEAN, c \in BOOLEAN :
       Recognize(n, r, l, c)
  \/ Adapter_Close

SpecAdapter == Init /\ [][NextAdapter]_vars

Residual == adapter.buffer \div BytesPerSample

C21_ZeroAudioFinalize ==
  (chunk_seq = 0 /\ \E c \in AppCalls : afin[c].pc = "done" /\ afin[c].result = "success")
    => /\ session.status = "completed"
       /\ session.duration_seconds = Unset
       /\ audio_files = <<>>

(* ---------------------------------------------------------------------- *)
(* The status step of finalize                                             *)
(* ---------------------------------------------------------------------- *)
\* C22: whenever finalize runs its audio and transcript steps, it goes on to
\* the update of the session status, whatever failed in those two steps.
C22_StatusStepAlwaysRuns ==
  [][\A c \in FinalizeCalls :
       (fin[c].pc = "process" /\ fin'[c].pc # "process")
         => fin'[c].did_status_update]_vars

(* ---------------------------------------------------------------------- *)
(* Finalize draining a store that may be unavailable                       *)
(* ---------------------------------------------------------------------- *)
DrainCalls == {"f1"}

\* RedisManager.get_session_transcriptions with its except branch: a read
\* that raises (up = FALSE) is logged and answered with the empty list
ReadTranscriptions(up) == IF up THEN get_session_transcriptions ELSE <<>>

\* finalize_session_task line 279 against a store that is up or not
D_GetTranscriptions(c, up) ==
  /\ fin[c].pc = "get_transcriptions"
  /\ fin' = [fin EXCEPT ![c].pc = "get_audio",
                        ![c].transcription_segments = ReadTranscriptions(up)]
  /\ drain_failed' = [drain_failed EXCEPT ![c] = ~up]
  /\ UNCHANGED <<session, redis_transcription, redis_audio, transcriptions,
                 audio_files, seg_seq, chunk_seq>>
  /\ UNCHANGED <<taskVars, appVars, auxOthers, drainOthers>>

NextDrain ==
  \/ \E t \in Texts : store_transcription_segment(t)
  \/ \E n \in ChunkSamples : store_audio_segment(n)
  \/ \E c \in DrainCalls, u \in Users, ok \in BOOLEAN : F_Begin(c, u, ok)
  \/ \E c \in DrainCalls, up \in BOOLEAN : D_GetTranscriptions(c, up)
  \/ \E c \in DrainCalls : F_GetAudio(c)
  \/ \E c \in DrainCalls, f \in FinalizeFaults : F_Process(c, f)
  \/ \E c \in DrainCalls : F_ClearTranscriptions(c)
  \/ \E c \in DrainCalls : F_ClearAudio(c)
  \/ \E c \in DrainCalls : F_Return(c)

SpecDrain == Init /\ [][NextDrain]_vars

\* C23: a finalize whose read of the store met an unavailable store does not
\* go on as if the lists were empty: it neither updates the session status
\* nor answers success.
C23_UnavailableStoreFails ==
  \A c \in DrainCalls :
    drain_failed[c] => (~fin[c].did_status_update /\ fin[c].result # "success")

(* ---------------------------------------------------------------------- *)
(* Progress of a retranscription task (routers/sessions_v2.py 527-740)     *)
(* ---------------------------------------------------------------------- *)
MaxPolls == 3
ProgressTask == "t1"
ProgressFaults == {"none", "query", "download", "delete"}

\* retranscribe_session_v2 line 710
PendingMarker == Progress("initializing", 0)

\* variant that writes the markers of the start in another order
StartMarkers_Swapped ==
  <<Progress("initializing", 10), Progress("downloading_audio", 25),
    Progress("finding_audio", 15)>>

\* lines 627, 537, 553: the markers written up to the download
StartMarkers ==
  <<Progress("initializing", 10), Progress("finding_audio", 15),
    Progress("downloading_audio", 25)>>

\* lines 566, 588: the markers written between the download and the
\* batch processing
CleanMarkers ==
  <<Progress("cleaning_old_data", 35), Progress("processing_audio", 50)>>

\* line 637
CompletedMarker == Progress("completed", 100)

\* the task store after the writes of the given progress values, in order,
\* each under the given status
RECURSIVE WriteAll(_, _, _, _)
WriteAll(store, task_id, status, markers) ==
  IF markers = <<>> THEN store
  ELSE WriteAll(update_task_status(store, task_id, status, Head(markers), None, ""),
                task_id, status, Tail(markers))

\* update_task_status(task_id, "failed", error=...): no progress is given
WriteFailed(store, task_id, error) ==
  update_task_status(store, task_id, "failed", None, None, error)

\* POST /v2/sessions/{id}/retranscribe
P_Allocate(user) ==
  /\ prog.pc = "unallocated"
  /\ verify_session_ownership(user)
  /\ task_store' = update_task_status(task_store, ProgressTask, "pending",
                                      PendingMarker, None, "")
  /\ prog' = [prog EXCEPT !.pc = "scheduled", !.published = <<PendingMarker>>]
  /\ UNCHANGED <<session, redis_transcription, redis_audio, transcriptions,
                 audio_files, seg_seq, chunk_seq, fin, task_history, bg,
                 cancelled_active, appVars, auxOthers, progOthers>>

\* the background task up to the download of the media
P_Start(fault) ==
  /\ prog.pc = "scheduled"
  /\ fault \in {"none", "query"}
  /\ LET files == SelectSeq(audio_files, IsUploaded)
         early == SubSeq(StartMarkers, 1, 2)
     IN IF fault = "query" \/ files = <<>>
        THEN /\ task_store' =
                  WriteFailed(WriteAll(task_store, ProgressTask, "started", early),
                              ProgressTask, "No audio files found for this session")
             /\ prog' = [prog EXCEPT !.pc = "done",
                                     !.published = @ \o early \o <<None>>]
        ELSE /\ task_store' = WriteAll(task_store, ProgressTask, "started", StartMarkers)
             /\ prog' = [prog EXCEPT !.pc = "download",
                                     !.published = @ \o StartMarkers]
  /\ UNCHANGED <<session, redis_transcription, redis_audio, transcriptions,
                 audio_files, seg_seq, chunk_seq, fin, task_history, bg,
                 cancelled_active, appVars, auxOthers, progOthers>>

\* the download answers: old transcriptions are deleted and the batch
\* processing starts
P_Downloaded(fault) ==
  /\ prog.pc = "download"
  /\ fault \in {"none", "download", "delete"}
  /\ IF fault = "download"
     THEN /\ task_store' = WriteFailed(task_store, ProgressTask,
                                       "Failed to download audio file from storage")
          /\ prog' = [prog EXCEPT !.pc = "done", !.published = Append(@, None)]
          /\ UNCHANGED transcriptions
     ELSE IF fault = "delete"
     THEN /\ task_store' =
               WriteFailed(WriteAll(task_store, ProgressTask, "started",
                                    SubSeq(CleanMarkers, 1, 1)),
                           ProgressTask, "delete failed")
          /\ prog' = [prog EXCEPT !.pc = "done",
                        !.published = @ \o SubSeq(CleanMarkers, 1, 1) \o <<None>>]
          /\ UNCHANGED transcriptions
     ELSE /\ task_store' = WriteAll(task_store, ProgressTask, "started", CleanMarkers)
          /\ prog' = [prog EXCEPT !.pc = "processing",
                                  !.published = @ \o CleanMarkers]
          /\ transcriptions' = <<>>
  /\ UNCHANGED <<session, redis_transcription, redis_audio, audio_files,
                 seg_seq, chunk_seq, fin, task_history, bg, cancelled_active,
                 appVars, auxOthers, progOthers>>

\* _process_batch_audio_file answers
P_Processed(ok) ==
  /\ prog.pc = "processing"
  /\ IF ok
     THEN /\ task_store' = update_task_status(task_store, ProgressTask, "success",
                             CompletedMarker,
                             [transcription_by |-> ProgressTask, total_segments |-> 1],
                             "")
          /\ prog' = [prog EXCEPT !.pc = "done",
                                  !.published = Append(@, CompletedMarker)]
          /\ audio_files' = Append(audio_files,
                                   [by |-> ProgressTask, upload_status |-> "completed",
                                    duration_seconds |-> 1])
          /\ transcriptions' = Append(transcriptions,
                                 [by |-> ProgressTask, segments |-> ReprocessedSegments,
                                  stt_model |-> "local_funasr_batch"])
          /\ session' = SessionRepository_update_session(session, "completed",
                                                         session.owner, TRUE)
     ELSE /\ task_store' = WriteFailed(task_store, ProgressTask,
                             "No transcription content generated from audio file")
          /\ prog' = [prog EXCEPT !.pc = "done", !.published = Append(@, None)]
          /\ UNCHANGED <<session, transcriptions, audio_files>>
  /\ UNCHANGED <<redis_transcription, redis_audio, seg_seq, chunk_seq, fin,
                 task_history, bg, cancelled_active, appVars, auxOthers,
                 progOthers>>

\* DELETE /v2/tasks/{task_id} for the task
P_Cancel ==
  /\ prog.pc # "unallocated"
  /\ task_store[ProgressTask].status # "cancelled"
  /\ task_store' = update_task_status(task_store, ProgressTask, "cancelled", None,
                                      None, "Task cancelled by user")
  /\ UNCHANGED <<session, redis_transcription, redis_audio, transcriptions,
                 audio_files, seg_seq, chunk_seq, fin, task_history, bg,
                 cancelled_active, appVars, auxVars>>

\* GET /v2/tasks/{task_id} by a client that was given the id: the progress
\* of the stored record, when it has one
P_Poll ==
  /\ prog.pc # "unallocated"
  /\ Len(prog.polled) < MaxPolls
  /\ task_store[ProgressTask].progress # None
  /\ prog' = [prog EXCEPT !.polled = Append(@, task_store[ProgressTask].progress)]
  /\ UNCHANGED <<baseVars, auxOthers, progOthers>>

NextProgress ==
  \/ \E u \in Users : P_Allocate(u)
  \/ \E f \in ProgressFaults : P_Start(f)
  \/ \E f \in ProgressFaults : P_Downloaded(f)
  \/ \E ok \in BOOLEAN : P_Processed(ok)
  \/ P_Cancel
  \/ P_Poll

SpecProgress == InitTask /\ [][NextProgress]_vars

IsProgress(p) == p # None

RECURSIVE IsPrefix(_, _)
IsPrefix(s, t) ==
  \/ s = <<>>
  \/ t # <<>> /\ Head(s) = Head(t) /\ IsPrefix(Tail(s), Tail(t))

NonDecreasing(s) == \A k \in 1..(Len(s) - 1) : s[k].percentage <= s[k + 1].percentage

InRange(s) == \A k \in 1..Len(s) : s[k].percentage \in 0..100

TwoSeconds == 2 * TicksPerSecond

\* C25: after the coalescing of the diarization result no speaker segment
\* is shorter than 2 s, unless it is the only segment.
C25_NoShortSegmentLeft ==
  (seg.pc \in {"selected", "done"} /\ ~FallbackUsed /\ Len(seg.speaker_segments) > 1)
    => \A k \in 1..Len(seg.speaker_segments) :
         seg.speaker_segments[k].end_time - seg.speaker_segments[k].start_time
           >= TwoSeconds

(* ---------------------------------------------------------------------- *)
(* The adapter's buffer when the media session closes                      *)
(* ---------------------------------------------------------------------- *)
\* C26: once the media session has closed, a residual buffer of at least
\* 0.1 s has been flushed: what the closed adapter still holds is shorter
\* than a tenth of a second.
C26_ResidualFlushedOnClose ==
  adapter.pc = "closed"
    => adapter.buffer < (adapter.rate \div 10) * BytesPerSample

(* ---------------------------------------------------------------------- *)
(* Flushes of one adapter instance (agent.py 67-164, 214-281)              *)
(* ---------------------------------------------------------------------- *)
\* MicroserviceSTT._recognize_impl is called with a frame; the caller awaits
\* one call before it makes the next. At the threshold the buffer is copied
\* and cleared, and the call goes on to the store append
ST_Recognize(samples) ==
  /\ stt.pc = "idle"
  /\ stt.frames < MaxFrames
  /\ LET filled == stt.buffer + samples * BytesPerSample
     IN IF filled >= BufferThreshold
        THEN stt' = [stt EXCEPT !.pc = "cache", !.chunk = filled, !.buffer = 0,
                                !.frames = @ + 1, !.received = @ + samples,
                                !.flushed = @ + filled]
        ELSE stt' = [stt EXCEPT !.buffer = filled, !.frames = @ + 1,
                                !.received = @ + samples]
  /\ UNCHANGED <<baseVars, auxOthers, sttOthers>>

\* Transcriber._cache_audio_segment has answered; the STT RPC is sent
ST_Cached ==
  /\ stt.pc = "cache"
  /\ stt' = [stt EXCEPT !.pc = "transcribe"]
  /\ UNCHANGED <<baseVars, auxOthers, sttOthers>>

\* the STT RPC has answered and _recognize_impl returns its event; a text
\* that is not empty starts Transcriber.on_user_turn_completed
ST_Transcribed(text) ==
  /\ stt.pc = "transcribe"
  /\ stt' = [stt EXCEPT !.pc = "idle", !.chunk = 0,
                        !.publishing = IF text # "" THEN @ + 1 ELSE @]
  /\ UNCHANGED <<baseVars, auxOthers, sttOthers>>

\* _send_transcription_to_frontend has published the text and appended it
\* to the store
ST_Published ==
  /\ stt.publishing > 0
  /\ stt' = [stt EXCEPT !.publishing = @ - 1]
  /\ UNCHANGED <<baseVars, auxOthers, sttOthers>>

NextFlush ==
  \/ \E n \in FrameSamples : ST_Recognize(n)
  \/ ST_Cached
  \/ \E x \in Texts : ST_Transcribed(x)
  \/ ST_Published

SpecFlush == Init /\ [][NextFlush]_vars

\* C27: a flush starts only when no flush of the instance is in progress,
\* its store append, STT RPC and publish included, and every byte received
\* is in the buffer or in exactly one flush.
C27_FlushesSerialized ==
  [][/\ (stt.pc = "idle" /\ stt'.pc = "cache") => stt.publishing = 0
     /\ stt'.flushed + stt'.buffer = stt'.received * BytesPerSample]_vars

(* ---------------------------------------------------------------------- *)
(* Storage paths of the uploads (sessions_v2.py 152-195,                   *)
(* transcriptions.py 643-703)                                              *)
(* ---------------------------------------------------------------------- *)
MaxClock == 4
MaxUploads == 3
PathPrefixes == {"raw", "batch-transcription"}
SessionId == "s1"

\* int(time.time()): the clock in whole seconds
EpochSeconds(now) == now \div TicksPerSecond

\* f"{prefix}/{user_id}/{session_id}_{timestamp}.mp3"
StoragePath(prefix, user_id, session_id, now) ==
  [prefix |-> prefix, user_id |-> user_id, session_id |-> session_id,
   timestamp |-> EpochSeconds(now)]

\* time passes
Clock_Tick ==
  /\ storage.now < MaxClock
  /\ storage' = [storage EXCEPT !.now = @ + 1]
  /\ UNCHANGED <<baseVars, auxOthers, storageOthers>>

\* _upload_audio_to_storage by finalize (prefix raw) or by retranscription
\* (prefix batch-transcription); the bucket refuses a path that exists
UploadAudioToStorage(prefix, user_id) ==
  /\ Len(storage.attempts) < MaxUploads
  /\ LET storage_path == StoragePath(prefix, user_id, SessionId, storage.now)
     IN storage' = [storage EXCEPT !.attempts = Append(@, storage_path),
                                   !.objects = @ \cup {storage_path}]
  /\ UNCHANGED <<baseVars, auxOthers, storageOthers>>

NextStorage ==
  \/ Clock_Tick
  \/ \E p \in PathPrefixes : UploadAudioToStorage(p, Owner)

SpecStorage == Init /\ [][NextStorage]_vars

\* C28: no two uploads use the same storage path.
C28_UniqueUploadPaths ==
  \A i, j \in 1..Len(storage.attempts) :
    i # j => storage.attempts[i] # storage.attempts[j]

(* ---------------------------------------------------------------------- *)
(* Segments appended while finalize runs                                   *)
(* ---------------------------------------------------------------------- *)
\* the segment with this append number is in a Transcript row
Persisted(rows, seq) ==
  \E r \in 1..Len(rows) : \E k \in 1..Len(rows[r].segments) :
    rows[r].segments[k].seq = seq

\* C29: when finalize clears the transcription list, every segment with
\* text that the list holds at that moment is in a persisted Transcript, so
\* that no appended segment is lost.
C29_NoSegmentLost ==
  [][\A c \in DrainCalls :
       (fin[c].pc = "clear_transcriptions" /\ fin'[c].pc # "clear_transcriptions")
         => \A k \in 1..Len(redis_transcription) :
              redis_transcription[k].text # ""
                => Persisted(transcriptions', redis_transcription[k].seq)]_vars

(* ---------------------------------------------------------------------- *)
(* Task status API (routers/tasks_v2.py 38-141)                            *)
(* ---------------------------------------------------------------------- *)
UndefinedId == "undefined"
PolledIds == {ProgressTask, NeverAllocated, UndefinedId}
PollTimes == {0, 3, 4, 9, 10, 19, 20}

\* time.time() % 10, in ticks
TaskAge(now) == now % (10 * TicksPerSecond)

\* get_task_status_impl: the status and progress of the answer
get_task_status_impl(store, task_id, now) ==
  IF task_id = UndefinedId
  THEN [task_id |-> task_id, status |-> "error", progress |-> None]
  ELSE IF task_id \notin DOMAIN store
  THEN IF TaskAge(now) < 2 * TicksPerSecond
       THEN [task_id |-> task_id, status |-> "pending",
             progress |-> Progress("initializing", 10)]
       ELSE IF TaskAge(now) < 5 * TicksPerSecond
       THEN [task_id |-> task_id, status |-> "started",
             progress |-> Progress("processing", 50)]
       ELSE [task_id |-> task_id, status |-> "success",
             progress |-> Progress("completed", 100)]
  ELSE [task_id |-> task_id, status |-> store[task_id].status,
        progress |-> store[task_id].progress]

\* GET /v2/tasks/{task_id} and GET /v2/tasks/{task_id}/status
T_GetStatus(task_id, now) ==
  /\ task_id = ProgressTask => prog.pc # "unallocated"   \* its id is known once allocated
  /\ reply' = get_task_status_impl(task_store, task_id, now)
  /\ UNCHANGED <<baseVars, auxOthers, replyOthers>>

NextStatus ==
  \/ \E u \in Users : P_Allocate(u)
  \/ \E f \in ProgressFaults : P_Start(f)
  \/ \E f \in ProgressFaults : P_Downloaded(f)
  \/ \E ok \in BOOLEAN : P_Processed(ok)
  \/ P_Cancel
  \/ \E t \in PolledIds, now \in PollTimes : T_GetStatus(t, now)

SpecStatus == InitTask /\ [][NextStatus]_vars

\* C30: an answer of the status API for a task carries the status and the
\* progress of the record last written for it, and an answer for an id
\* that was never allocated carries none of pending, started, success.
C30_ReportsLastRecord ==
  [][reply' # reply =>
       IF reply'.task_id \in DOMAIN task_store
       THEN /\ reply'.status = task_store[reply'.task_id].status
            /\ reply'.progress = task_store[reply'.task_id].progress
       ELSE reply'.status \notin {"pending", "started", "success"}]_vars

====
